---------------------------- MODULE Spec2Model ----------------------------
(***************************************************************************)
(* MetalLedger price normalizer: outlier detection, source-priority        *)
(* resolution and batch normalisation                                      *)
(* (services/pricing_ingestor/normalizer.py, packages/common/config.py),   *)
(* the ingest tick that calls it (services/pricing_ingestor/main.py),      *)
(* the orchestrator's policy gate and scheduled tick                       *)
(* (services/orchestrator_agent/policy.py, scheduler.py), the egress       *)
(* guard (packages/common/egress.py) and the ledger's journal entry        *)
(* endpoint (services/ledger/endpoints.py, models.py).                     *)
(*                                                                         *)
(* Numbers.  Decimal values are exact integers counted in one fixed        *)
(* quantum.  A Python float is a binary floating-point number; the model   *)
(* keeps its arithmetic (round to nearest, ties to even, on conversion     *)
(* and on every operation) with a MantissaBits-bit significand instead of  *)
(* 53 bits, and the quantum as the smallest spacing.  The representable    *)
(* floats are the integers m * 2^e with |m| < 2^MantissaBits and e >= 0.   *)
(***************************************************************************)
EXTENDS Integers, Sequences, FiniteSets, TLC

----------------------------------------------------------------------------
(* Bounds of the model *)

MantissaBits == 3

MaxHist == 2

MaxBatch == 2

MaxCandidates == 3

\* Ingest ticks run, and clock instants in one calendar day
MaxTicks == 2

DayLength == 2

\* Calls of check_action
MaxChecks == 2

----------------------------------------------------------------------------
(* Floating-point arithmetic *)

RECURSIVE Pow2(_)
Pow2(n) == IF n <= 0 THEN 1 ELSE 2 * Pow2(n - 1)

\* The exponent e >= 0 of the binade holding the non-negative rational n/d:
\* the least e with n/d < 2^(MantissaBits + e).
RECURSIVE Binade(_, _, _)
Binade(n, d, e) ==
    IF n < Pow2(MantissaBits + e) * d THEN e ELSE Binade(n, d, e + 1)

\* Round the non-negative rational n/d (d > 0) to the nearest float, ties to
\* the float with the even significand.
RoundNonNeg(n, d) ==
    LET ulp == Pow2(Binade(n, d, 0))
        lo  == ((n \div d) \div ulp) * ulp
        hi  == lo + ulp
    IN  IF 2 * n < (lo + hi) * d THEN lo
        ELSE IF 2 * n > (lo + hi) * d THEN hi
        ELSE IF (lo \div ulp) % 2 = 0 THEN lo ELSE hi

\* Round the rational n/d (d > 0) to the nearest float.
RoundToFloat(n, d) ==
    IF n >= 0 THEN RoundNonNeg(n, d) ELSE 0 - RoundNonNeg(0 - n, d)

\* float(value) of a Decimal
DecimalToFloat(v) == RoundToFloat(v, 1)

\* a * b, a + b and a / 2 on floats
FloatMul(a, b) == RoundToFloat(a * b, 1)

FloatAdd(a, b) == RoundToFloat(a + b, 1)

FloatHalf(a) == RoundToFloat(a, 2)

----------------------------------------------------------------------------
(* Results of calls that may raise; Optional values *)

NoExc == "none"

Ret(v) == [exc |-> NoExc, val |-> v]

Raise(e) == [exc |-> e, val |-> <<>>]

\* Optional[float]: None is <<>>, a value x is <<x>>
None == <<>>

Some(x) == <<x>>

----------------------------------------------------------------------------
(* Rolling-median outlier detection *)

\* sorted(data)
Sorted(data) == SortSeq(data, LAMBDA a, b : a < b)

\* statistics.median: StatisticsError on no data, the middle element of the
\* sorted data, or the mean of the two middle elements.
median(data) ==
    LET s == Sorted(data)
        n == Len(s)
        i == n \div 2
    IN  IF n = 0 THEN Raise("StatisticsError")
        ELSE IF n % 2 = 1 THEN Ret(s[i + 1])
        ELSE Ret(FloatHalf(FloatAdd(s[i], s[i + 1])))

compute_rolling_median_unguarded(historical_values) ==
    LET m == median(historical_values)
    IN  IF m.exc # NoExc THEN m ELSE Ret(Some(m.val))

compute_rolling_median(historical_values) ==
    IF historical_values = <<>> THEN Ret(None)
    ELSE LET m == median(historical_values)
         IN  IF m.exc # NoExc THEN m ELSE Ret(Some(m.val))

is_outlier_nozero(value, historical_values, mult) ==
    LET med == compute_rolling_median(historical_values)
    IN  IF med.exc # NoExc THEN Raise(med.exc)
        ELSE IF med.val = None THEN Ret(FALSE)
        ELSE Ret(DecimalToFloat(value) > FloatMul(mult, med.val[1]))

is_outlier_two_sided(value, historical_values, mult) ==
    LET med == compute_rolling_median(historical_values)
    IN  IF med.exc # NoExc THEN Raise(med.exc)
        ELSE IF med.val = None THEN Ret(FALSE)
        ELSE IF med.val[1] = 0 THEN Ret(FALSE)
        ELSE Ret(\/ DecimalToFloat(value) > FloatMul(mult, med.val[1])
                 \/ FloatMul(mult, DecimalToFloat(value)) < med.val[1])

is_outlier(value, historical_values, mult) ==
    LET med == compute_rolling_median(historical_values)
    IN  IF med.exc # NoExc THEN Raise(med.exc)
        ELSE IF med.val = None THEN Ret(FALSE)
        ELSE IF med.val[1] = 0 THEN Ret(FALSE)
        ELSE Ret(DecimalToFloat(value) > FloatMul(mult, med.val[1]))

----------------------------------------------------------------------------
(* Source priority resolution *)

\* SOURCE_PRIORITY: lower number = higher priority
KnownSources == {"dealer_manual", "iscrap", "scrap_register", "recycling_today", "seed"}

SOURCE_PRIORITY ==
    [s \in KnownSources |->
        CASE s = "dealer_manual"   -> 1
          [] s = "iscrap"          -> 2
          [] s = "scrap_register"  -> 3
          [] s = "recycling_today" -> 4
          [] s = "seed"            -> 99]

UnknownSourcePriority == 999

FerrousPreference == <<"dealer_manual", "iscrap", "recycling_today">>

NonFerrousPreference == <<"dealer_manual", "iscrap", "scrap_register">>

FerrousMetals == {"HMS1", "HMS2", "SHRED", "CAST", "ZORBA"}

NonFerrousMetals ==
    {"CU_BARE", "CU_1", "CU_2", "AL_CAST", "AL_EXTRUSION", "BRASS", "SS_304", "LEAD"}

\* METAL_SOURCE_PREFERENCE: first matching source wins
METAL_SOURCE_PREFERENCE ==
    [m \in FerrousMetals \cup NonFerrousMetals |->
        IF m \in FerrousMetals THEN FerrousPreference ELSE NonFerrousPreference]

\* SOURCE_PRIORITY.get(source, 999)
PriorityOfDefaultZero(source) ==
    IF source \in DOMAIN SOURCE_PRIORITY THEN SOURCE_PRIORITY[source] ELSE 0

PriorityOf(source) ==
    IF source \in DOMAIN SOURCE_PRIORITY THEN SOURCE_PRIORITY[source]
    ELSE UnknownSourcePriority

\* sorted(prices, key=...): a stable sort, built by inserting each element
\* after the elements whose key is not greater
InsertByPriority(t, x) ==
    LET pos == Cardinality({j \in 1..Len(t) :
                              PriorityOf(t[j].source) <= PriorityOf(x.source)})
    IN  SubSeq(t, 1, pos) \o <<x>> \o SubSeq(t, pos + 1, Len(t))

RECURSIVE SortPrefix(_, _)
SortPrefix(prices, n) ==
    IF n = 0 THEN <<>> ELSE InsertByPriority(SortPrefix(prices, n - 1), prices[n])

sort_by_priority(prices) == SortPrefix(prices, Len(prices))

\* METAL_SOURCE_PREFERENCE.get(metal, [])
PreferenceOf(metal) ==
    IF metal \in DOMAIN METAL_SOURCE_PREFERENCE
    THEN METAL_SOURCE_PREFERENCE[metal] ELSE <<>>

\* for preferred_source in preference: for p in prices: first match returns
RECURSIVE FirstPreferred(_, _, _)
FirstPreferred(preference, prices, k) ==
    IF k > Len(preference) THEN None
    ELSE LET hits == {j \in 1..Len(prices) : prices[j].source = preference[k]}
         IN  IF hits # {}
             THEN Some(prices[CHOOSE j \in hits : \A i \in hits : j <= i])
             ELSE FirstPreferred(preference, prices, k + 1)

\* seq[0]
First(seq) == IF seq = <<>> THEN Raise("IndexError") ELSE Ret(Some(seq[1]))

select_best_price_global_only(prices, metal) ==
    IF prices = <<>> THEN Ret(None)
    ELSE First(sort_by_priority(prices))

select_best_price(prices, metal) ==
    IF prices = <<>> THEN Ret(None)
    ELSE LET hit == FirstPreferred(PreferenceOf(metal), prices, 1)
         IN  IF hit # None THEN Ret(hit)
             ELSE First(sort_by_priority(prices))

----------------------------------------------------------------------------
(* The normalisation result and the batch normaliser *)

\* NormalizationResult.accept / .reject
accept(res, price) == [res EXCEPT !.accepted = Append(@, price)]

reject(res, price, reason) ==
    [res EXCEPT !.rejected = Append(@, [price |-> price, reason |-> reason])]

\* The rejection reason: the f-string's numbers, kept as fields.  Formatting
\* None with :.4f raises TypeError.
FormatReason(value, mult, med) ==
    IF med.exc # NoExc THEN Raise(med.exc)
    ELSE IF med.val = None THEN Raise("TypeError")
    ELSE Ret([kind |-> "outlier", value |-> value,
              multiplier |-> mult, median |-> med.val[1]])

\* by_metal.setdefault(p.metal, []).append(p); the dict keeps insertion order
setdefault_prepend(by_metal, p) ==
    IF \E k \in 1..Len(by_metal) : by_metal[k].metal = p.metal
    THEN [k \in 1..Len(by_metal) |->
            IF by_metal[k].metal = p.metal
            THEN [by_metal[k] EXCEPT !.candidates = <<p>> \o @]
            ELSE by_metal[k]]
    ELSE Append(by_metal, [metal |-> p.metal, candidates |-> <<p>>])

setdefault_append(by_metal, p) ==
    IF \E k \in 1..Len(by_metal) : by_metal[k].metal = p.metal
    THEN [k \in 1..Len(by_metal) |->
            IF by_metal[k].metal = p.metal
            THEN [by_metal[k] EXCEPT !.candidates = Append(@, p)]
            ELSE by_metal[k]]
    ELSE Append(by_metal, [metal |-> p.metal, candidates |-> <<p>>])

\* historical_lookup.get(metal, [])
HistoryOfFirstKey(lookup, metal) ==
    IF DOMAIN lookup = {} THEN <<>>
    ELSE lookup[CHOOSE k \in DOMAIN lookup : TRUE]

HistoryGet(lookup, metal) ==
    IF metal \in DOMAIN lookup THEN lookup[metal] ELSE <<>>

\* The caller's dict after historical_lookup.get(metal, []) and after
\* statistics.median(history) (which sorts a copy): dict.get adds no key, and
\* no value list is written to.
LookupAfterSetdefault(lookup, metal) ==
    IF metal \in DOMAIN lookup THEN lookup
    ELSE [k \in DOMAIN lookup \cup {metal} |->
            IF k = metal THEN <<>> ELSE lookup[k]]

LookupAfterGet(lookup, metal) == lookup

\* The body of the loop over candidates: outlier check, reject and continue,
\* else accept.
ClassifyNoContinue(res, price, history, mult) ==
    LET o == is_outlier(price.value, history, mult)
        r == FormatReason(price.value, mult, compute_rolling_median(history))
    IN  IF o.exc # NoExc THEN Raise(o.exc)
        ELSE IF o.val
             THEN IF r.exc # NoExc THEN Raise(r.exc)
                  ELSE Ret(accept(reject(res, price, r.val), price))
        ELSE Ret(accept(res, price))

ClassifyUntilRejected(res, price, history, mult) ==
    LET o == is_outlier(price.value, history, mult)
        r == FormatReason(price.value, mult, compute_rolling_median(history))
    IN  IF res.rejected # <<>> THEN Ret(res)
        ELSE IF o.exc # NoExc THEN Raise(o.exc)
        ELSE IF o.val
             THEN IF r.exc # NoExc THEN Raise(r.exc)
                  ELSE Ret(reject(res, price, r.val))
        ELSE Ret(accept(res, price))

Classify(res, price, history, mult) ==
    LET o == is_outlier(price.value, history, mult)
        r == FormatReason(price.value, mult, compute_rolling_median(history))
    IN  IF o.exc # NoExc THEN Raise(o.exc)
        ELSE IF o.val
             THEN IF r.exc # NoExc THEN Raise(r.exc)
                  ELSE Ret(reject(res, price, r.val))
        ELSE Ret(accept(res, price))

----------------------------------------------------------------------------
(* State *)

VARIABLES
    \* one call of normalize
    pc, exc, incoming, historical_lookup, multiplier, by_metal, gi, mi, ci,
    result,
    \* what an earlier call on related inputs returned
    ref,
    \* one call of is_outlier
    io_pc, io_value, io_history, io_multiplier, io_result,
    \* one call of select_best_price
    sb_pc, sb_prices, sb_metal, sb_result,
    \* interleaved calls of normalize: each caller's frame, and the list
    \* objects the frames refer to
    calls, heap,
    \* the pricing ingestor: the clock, the three tables, the number of ticks
    \* started, and the running tick's position and locals
    now, prices_raw, prices_canonical, audit_log, started, tick_pc, tick,
    \* the policy gate: the approvals, policy_events and audit_log tables, the
    \* number of check_action calls, and what the last call got and gave
    approvals, policy_events, policy_audit, checks, last_check,
    \* the egress guard: the HTTP requests sent, the number of calls, and what
    \* the last call got and gave
    requests, egress_calls, egress_last,
    \* the ledger service: the journal_entries, journal_lines and audit_log
    \* tables, the number of POST /journal_entries requests, and what the last
    \* request sent and got
    journal_entries, journal_lines, ledger_audit, posts, ledger_last,
    \* the orchestrator: the running tick's position, the number of ticks
    \* started, what the tick's check_action and forecast run gave, the forecast
    \* runs triggered and the reports stored
    o_pc, o_ticks, o_check, o_forecast, forecast_runs, reports

n_vars == <<pc, exc, incoming, historical_lookup, multiplier, by_metal, gi, mi,
            ci, result, ref>>

io_vars == <<io_pc, io_value, io_history, io_multiplier, io_result>>

sb_vars == <<sb_pc, sb_prices, sb_metal, sb_result>>

c_vars == <<calls, heap>>

t_vars == <<now, prices_raw, prices_canonical, audit_log, started, tick_pc, tick>>

p_vars == <<approvals, policy_events, policy_audit, checks, last_check>>

e_vars == <<requests, egress_calls, egress_last>>

l_vars == <<journal_entries, journal_lines, ledger_audit, posts, ledger_last>>

o_vars == <<o_pc, o_ticks, o_check, o_forecast, forecast_runs, reports>>

vars == <<n_vars, io_vars, sb_vars, c_vars, t_vars, p_vars, e_vars, l_vars, o_vars>>

\* The variables other than those of one specification
other_than_n == <<io_vars, sb_vars, c_vars, t_vars, p_vars, e_vars, l_vars, o_vars>>

other_than_io == <<n_vars, sb_vars, c_vars, t_vars, p_vars, e_vars, l_vars, o_vars>>

other_than_sb == <<n_vars, io_vars, c_vars, t_vars, p_vars, e_vars, l_vars, o_vars>>

other_than_c == <<n_vars, io_vars, sb_vars, t_vars, p_vars, e_vars, l_vars, o_vars>>

other_than_t == <<n_vars, io_vars, sb_vars, c_vars, p_vars, e_vars, l_vars, o_vars>>

other_than_p == <<n_vars, io_vars, sb_vars, c_vars, t_vars, e_vars, l_vars, o_vars>>

other_than_e == <<n_vars, io_vars, sb_vars, c_vars, t_vars, p_vars, l_vars, o_vars>>

other_than_l == <<n_vars, io_vars, sb_vars, c_vars, t_vars, p_vars, e_vars, o_vars>>

\* The variables other than the orchestrator's and the policy tables it writes
other_than_o_p == <<n_vars, io_vars, sb_vars, c_vars, t_vars, e_vars, l_vars>>

other_than_o == <<n_vars, io_vars, sb_vars, c_vars, t_vars, p_vars, e_vars, l_vars>>

\* The callers that run normalize at the same time
Callers == {"A", "B"}

NoFrame == [pc |-> "idle"]

\* No call of is_outlier, no call of select_best_price
IoIdle ==
    /\ io_pc = "off"
    /\ io_value = 0
    /\ io_history = <<>>
    /\ io_multiplier = 0
    /\ io_result = Ret(FALSE)

SbIdle ==
    /\ sb_pc = "off"
    /\ sb_prices = <<>>
    /\ sb_metal = ""
    /\ sb_result = Ret(None)

\* No caller in normalize, no list object allocated
ConcIdle ==
    /\ calls = [c \in Callers |-> NoFrame]
    /\ heap = <<>>

\* The locals of ingest_tick before anything is assigned
NoTick ==
    [request_id |-> 0, all_prices |-> <<>>, ai |-> 1, log |-> <<>>,
     historical |-> <<>>, result |-> [accepted |-> <<>>, rejected |-> <<>>],
     promoted |-> 0, pi |-> 1]

\* The ingestor not started: empty tables, no tick
TickIdle ==
    /\ now = 0
    /\ prices_raw = <<>>
    /\ prices_canonical = {}
    /\ audit_log = <<>>
    /\ started = 0
    /\ tick_pc = "idle"
    /\ tick = NoTick

NoCheck == [action |-> "", actor |-> "", outcome |-> Ret("")]

\* No call of check_action yet, empty tables
PolicyIdle ==
    /\ approvals = {}
    /\ policy_events = <<>>
    /\ policy_audit = <<>>
    /\ checks = 0
    /\ last_check = NoCheck

NoEgress == [fn |-> "", url |-> <<>>, outcome |-> Ret(None)]

\* No call of the egress guard yet, no request sent
EgressIdle ==
    /\ requests = <<>>
    /\ egress_calls = 0
    /\ egress_last = NoEgress

NoPost == [role |-> None, lines |-> <<>>, status |-> 0]

\* No request to the ledger yet, empty tables
LedgerIdle ==
    /\ journal_entries = <<>>
    /\ journal_lines = <<>>
    /\ ledger_audit = <<>>
    /\ posts = 0
    /\ ledger_last = NoPost

\* check_action not called yet in the tick; no forecast result yet
Pending == [exc |-> "pending", val |-> ""]

NoForecast == [forecasts_created |-> 0, error |-> ""]

\* The orchestrator not started
OrchIdle ==
    /\ o_pc = "idle"
    /\ o_ticks = 0
    /\ o_check = Pending
    /\ o_forecast = NoForecast
    /\ forecast_runs = <<>>
    /\ reports = <<>>

\* All sequences over S of length at most n
SeqsUpTo(S, n) == UNION {[1..k -> S] : k \in 0..n}

----------------------------------------------------------------------------
(* normalize, one step at a time *)

BatchSources == {"dealer_manual", "iscrap"}

BatchMetals == {"CU_BARE", "HMS1"}

BatchValues == {0, 9, 10}

BatchHistories == {<<>>, <<0>>, <<4>>, <<4, 2>>}

BatchMultipliers == {2, 3}

Templates == [source : BatchSources, metal : BatchMetals, value : BatchValues]

\* A batch of distinct PricePoint objects: the id is the object's identity
MakeBatch(ts) ==
    [k \in 1..Len(ts) |->
        [id |-> k, source |-> ts[k].source, metal |-> ts[k].metal,
         value |-> ts[k].value]]

Batches == {MakeBatch(ts) : ts \in SeqsUpTo(Templates, MaxBatch)}

Lookups ==
    UNION {[D -> BatchHistories] : D \in SUBSET BatchMetals}

NoRef == [kind |-> "none"]

\* NormalizationResult(): two fresh, empty lists
NewResultShared == result

NewResult == [accepted |-> <<>>, rejected |-> <<>>]

NormIdle ==
    /\ pc = "idle"
    /\ exc = NoExc
    /\ incoming = <<>>
    /\ historical_lookup = <<>>
    /\ multiplier = 0
    /\ by_metal = <<>>
    /\ gi = 1
    /\ mi = 1
    /\ ci = 1
    /\ result = [accepted |-> <<>>, rejected |-> <<>>]
    /\ ref = NoRef

\* Entry of normalize: result = NormalizationResult(); by_metal = {}
Enter(batch, lookup, mult) ==
    /\ pc' = "group"
    /\ exc' = NoExc
    /\ incoming' = batch
    /\ historical_lookup' = lookup
    /\ multiplier' = mult
    /\ result' = NewResult
    /\ by_metal' = <<>>
    /\ gi' = 1
    /\ mi' = 1
    /\ ci' = 1

Call ==
    /\ pc = "idle"
    /\ \E batch \in Batches, lookup \in Lookups, mult \in BatchMultipliers :
          Enter(batch, lookup, mult)
    /\ ref' = NoRef
    /\ UNCHANGED other_than_n

\* for p in incoming: by_metal.setdefault(p.metal, []).append(p)
GroupStep ==
    /\ pc = "group"
    /\ gi <= Len(incoming)
    /\ by_metal' = setdefault_append(by_metal, incoming[gi])
    /\ gi' = gi + 1
    /\ UNCHANGED <<pc, exc, incoming, historical_lookup, multiplier, mi, ci,
                   result, ref>>
    /\ UNCHANGED other_than_n

GroupDone ==
    /\ pc = "group"
    /\ gi > Len(incoming)
    /\ pc' = "classify"
    /\ UNCHANGED <<exc, incoming, historical_lookup, multiplier, by_metal, gi,
                   mi, ci, result, ref>>
    /\ UNCHANGED other_than_n

\* One iteration of: for metal, candidates in by_metal.items():
\*                       history = historical_lookup.get(metal, [])
\*                       for price in candidates: ...
ClassifyStep ==
    /\ pc = "classify"
    /\ mi <= Len(by_metal)
    /\ LET entry   == by_metal[mi]
           history == HistoryGet(historical_lookup, entry.metal)
           c       == Classify(result, entry.candidates[ci], history, multiplier)
       IN  /\ IF c.exc # NoExc
              THEN pc' = "raised" /\ exc' = c.exc /\ result' = result
              ELSE pc' = pc /\ exc' = exc /\ result' = c.val
           /\ IF ci < Len(entry.candidates)
              THEN mi' = mi /\ ci' = ci + 1
              ELSE mi' = mi + 1 /\ ci' = 1
           /\ historical_lookup' = LookupAfterGet(historical_lookup, entry.metal)
    /\ UNCHANGED <<incoming, multiplier, by_metal, gi, ref>>
    /\ UNCHANGED other_than_n

\* return result
Return ==
    /\ pc = "classify"
    /\ mi > Len(by_metal)
    /\ pc' = "done"
    /\ UNCHANGED <<exc, incoming, historical_lookup, multiplier, by_metal, gi,
                   mi, ci, result, ref>>
    /\ UNCHANGED other_than_n

\* The caller drops the outcome
Forget ==
    /\ pc = "done"
    /\ pc' = "idle"
    /\ exc' = NoExc
    /\ incoming' = <<>>
    /\ historical_lookup' = <<>>
    /\ multiplier' = 0
    /\ by_metal' = <<>>
    /\ gi' = 1
    /\ mi' = 1
    /\ ci' = 1
    /\ result' = [accepted |-> <<>>, rejected |-> <<>>]
    /\ ref' = NoRef
    /\ UNCHANGED other_than_n

\* The caller keeps the outcome and calls normalize again on the identical
\* batch and the identical historical snapshot
CallAgain ==
    /\ pc = "done"
    /\ ref' = [kind |-> "same", result |-> result]
    /\ Enter(incoming, historical_lookup, multiplier)
    /\ UNCHANGED other_than_n

\* The observations of one metal, in batch order, each with what the outcome
\* says of it
InAccepted(res, p) == \E j \in 1..Len(res.accepted) : res.accepted[j].id = p.id

InRejected(res, p) == \E j \in 1..Len(res.rejected) : res.rejected[j].price.id = p.id

OfMetal(batch, metal) == SelectSeq(batch, LAMBDA p : p.metal = metal)

DecisionsFor(metal, batch, res) ==
    LET ps == OfMetal(batch, metal)
    IN  [k \in 1..Len(ps) |->
            [source |-> ps[k].source, value |-> ps[k].value,
             accepted |-> InAccepted(res, ps[k]),
             rejected |-> InRejected(res, ps[k])]]

Strip(batch) ==
    [k \in 1..Len(batch) |->
        [source |-> batch[k].source, metal |-> batch[k].metal,
         value |-> batch[k].value]]

InsertAt(s, k, x) == SubSeq(s, 1, k - 1) \o <<x>> \o SubSeq(s, k, Len(s))

RemoveAt(s, k) == SubSeq(s, 1, k - 1) \o SubSeq(s, k + 1, Len(s))

\* Two lookups hold the same history for metal a (no entry: an empty one)
SameHistory(x, y, a) ==
    (IF a \in DOMAIN x THEN x[a] ELSE <<>>) = (IF a \in DOMAIN y THEN y[a] ELSE <<>>)

\* The inputs one change away that leave the observations and the history of
\* metal a as they are: another history (or none) for another metal b, an
\* observation of b less, an observation of b more.
VariedInputs(a) ==
    {[batch |-> incoming, lookup |-> l] :
        l \in {x \in Lookups :
                  /\ x # historical_lookup
                  /\ SameHistory(x, historical_lookup, a)}}
    \cup
    {[batch |-> MakeBatch(RemoveAt(Strip(incoming), k)), lookup |-> historical_lookup] :
        k \in {j \in 1..Len(incoming) : incoming[j].metal # a}}
    \cup
    {[batch |-> MakeBatch(InsertAt(Strip(incoming), k, t)), lookup |-> historical_lookup] :
        k \in {j \in 1..(Len(incoming) + 1) : Len(incoming) < MaxBatch},
        t \in {x \in Templates : x.metal # a}}

\* The caller keeps what the outcome says of metal a and calls normalize on
\* inputs that differ only in other metals
CallVaried ==
    /\ pc = "done"
    /\ \E a \in BatchMetals :
         /\ ref' = IF ref.kind = "varied" /\ ref.metal = a THEN ref
                   ELSE [kind |-> "varied", metal |-> a,
                         decisions |-> DecisionsFor(a, incoming, result)]
         /\ \E v \in VariedInputs(a) : Enter(v.batch, v.lookup, multiplier)
    /\ UNCHANGED other_than_n

----------------------------------------------------------------------------
(* normalize called by several callers at the same time.  Each caller has
   its own frame (arguments and locals); lists are objects on a heap, and a
   frame's result refers to its two lists by address. *)

ConcTemplates ==
    {[source |-> "iscrap", metal |-> "CU_BARE", value |-> 10],
     [source |-> "iscrap", metal |-> "CU_BARE", value |-> 0],
     [source |-> "dealer_manual", metal |-> "HMS1", value |-> 10]}

ConcLookups ==
    {[m \in {} |-> <<>>],
     [m \in {"CU_BARE"} |-> <<4>>],
     [m \in BatchMetals |-> IF m = "HMS1" THEN <<4, 2>> ELSE <<0>>]}

\* A multiplier under which some drawn value is rejected and some accepted
ConcMultipliers == {2}

\* A caller's own batch: PricePoint objects no other caller holds
MakeBatchOf(c, ts) ==
    [k \in 1..Len(ts) |->
        [id |-> k, owner |-> c, source |-> ts[k].source,
         metal |-> ts[k].metal, value |-> ts[k].value]]

\* NormalizationResult.__init__: self.accepted = [], self.rejected = [] are
\* two new list objects, at the next free addresses of the heap
InitResultShared(h) == [accepted |-> 1, rejected |-> 2]

InitResult(h) == [accepted |-> Len(h) + 1, rejected |-> Len(h) + 2]

\* The heap once the lists a result refers to exist
HeapWith(h, r) == IF r.rejected > Len(h) THEN h \o <<<<>>, <<>>>> ELSE h

\* The result object a frame refers to, read through the heap
Deref(h, r) == [accepted |-> h[r.accepted], rejected |-> h[r.rejected]]

\* Entry of normalize for caller c
ConcCall(c) ==
    /\ calls[c].pc = "idle"
    /\ \E ts \in SeqsUpTo(ConcTemplates, MaxBatch), lookup \in ConcLookups,
          mult \in ConcMultipliers :
         LET r == InitResult(heap)
         IN  /\ heap' = HeapWith(heap, r)
             /\ calls' = [calls EXCEPT ![c] =
                    [pc |-> "group", incoming |-> MakeBatchOf(c, ts),
                     historical_lookup |-> lookup, multiplier |-> mult,
                     by_metal |-> <<>>, gi |-> 1, mi |-> 1, ci |-> 1,
                     result |-> r]]
    /\ UNCHANGED other_than_c

ConcGroupStep(c) ==
    LET f == calls[c]
    IN  /\ f.pc = "group"
        /\ f.gi <= Len(f.incoming)
        /\ calls' = [calls EXCEPT ![c] =
               [f EXCEPT !.by_metal = setdefault_append(@, f.incoming[f.gi]),
                         !.gi = @ + 1]]
        /\ UNCHANGED heap
        /\ UNCHANGED other_than_c

ConcGroupDone(c) ==
    LET f == calls[c]
    IN  /\ f.pc = "group"
        /\ f.gi > Len(f.incoming)
        /\ calls' = [calls EXCEPT ![c] = [f EXCEPT !.pc = "classify"]]
        /\ UNCHANGED heap
        /\ UNCHANGED other_than_c

ConcClassifyStep(c) ==
    LET f == calls[c]
    IN  /\ f.pc = "classify"
        /\ f.mi <= Len(f.by_metal)
        /\ LET entry   == f.by_metal[f.mi]
               history == HistoryGet(f.historical_lookup, entry.metal)
               cl      == Classify(Deref(heap, f.result), entry.candidates[f.ci],
                                   history, f.multiplier)
               last    == f.ci >= Len(entry.candidates)
           IN  /\ calls' = [calls EXCEPT ![c] =
                      [f EXCEPT !.pc = IF cl.exc # NoExc THEN "raised" ELSE @,
                                !.mi = IF last THEN @ + 1 ELSE @,
                                !.ci = IF last THEN 1 ELSE @ + 1]]
               /\ heap' = IF cl.exc # NoExc THEN heap
                          ELSE [heap EXCEPT ![f.result.accepted] = cl.val.accepted,
                                            ![f.result.rejected] = cl.val.rejected]
        /\ UNCHANGED other_than_c

ConcReturn(c) ==
    LET f == calls[c]
    IN  /\ f.pc = "classify"
        /\ f.mi > Len(f.by_metal)
        /\ calls' = [calls EXCEPT ![c] = [f EXCEPT !.pc = "done"]]
        /\ UNCHANGED heap
        /\ UNCHANGED other_than_c

InitConc ==
    /\ NormIdle
    /\ IoIdle
    /\ SbIdle
    /\ ConcIdle
    /\ TickIdle
    /\ PolicyIdle
    /\ EgressIdle
    /\ LedgerIdle
    /\ OrchIdle

NextConc ==
    \E c \in Callers :
        \/ ConcCall(c)
        \/ ConcGroupStep(c)
        \/ ConcGroupDone(c)
        \/ ConcClassifyStep(c)
        \/ ConcReturn(c)

SpecConc == InitConc /\ [][NextConc]_vars

----------------------------------------------------------------------------
(* is_outlier as a pure function: inputs drawn in Init, one call *)

OutlierValues == (0 - 2) .. 18

OutlierHistValues == {0 - 2, 0, 2, 4}

OutlierMultipliers == {0, 1, 2, 3}

InitOutlier ==
    /\ io_pc = "call"
    /\ io_value \in OutlierValues
    /\ io_history \in SeqsUpTo(OutlierHistValues, MaxHist)
    /\ io_multiplier \in OutlierMultipliers
    /\ io_result = Ret(FALSE)
    /\ NormIdle
    /\ SbIdle
    /\ ConcIdle
    /\ TickIdle
    /\ PolicyIdle
    /\ EgressIdle
    /\ LedgerIdle
    /\ OrchIdle

CallIsOutlier ==
    /\ io_pc = "call"
    /\ io_pc' = "returned"
    /\ io_result' = is_outlier(io_value, io_history, io_multiplier)
    /\ UNCHANGED <<io_value, io_history, io_multiplier>>
    /\ UNCHANGED other_than_io

NextOutlier == CallIsOutlier

SpecOutlier == InitOutlier /\ [][NextOutlier]_vars

----------------------------------------------------------------------------
(* select_best_price as a pure function: inputs drawn in Init, one call *)

\* The known sources and one the priority table does not know
CandidateSources == KnownSources \cup {"metals_api"}

\* Metals with either preference list and one without a list
CandidateMetals == {"HMS1", "CU_BARE", "XAU"}

\* The candidates of one metal: distinct objects, told apart by their id
MakeCandidates(srcs, metal) ==
    [k \in 1..Len(srcs) |->
        [id |-> k, source |-> srcs[k], metal |-> metal, value |-> 5]]

InitSelect ==
    /\ sb_pc = "call"
    /\ sb_metal \in CandidateMetals
    /\ \E srcs \in SeqsUpTo(CandidateSources, MaxCandidates) :
          sb_prices = MakeCandidates(srcs, sb_metal)
    /\ sb_result = Ret(None)
    /\ NormIdle
    /\ IoIdle
    /\ ConcIdle
    /\ TickIdle
    /\ PolicyIdle
    /\ EgressIdle
    /\ LedgerIdle
    /\ OrchIdle

CallSelectBestPrice ==
    /\ sb_pc = "call"
    /\ sb_pc' = "returned"
    /\ sb_result' = select_best_price(sb_prices, sb_metal)
    /\ UNCHANGED <<sb_prices, sb_metal>>
    /\ UNCHANGED other_than_sb

NextSelect == CallSelectBestPrice

SpecSelect == InitSelect /\ [][NextSelect]_vars

----------------------------------------------------------------------------
(* normalize as one call *)

RECURSIVE group_by_metal(_, _)
group_by_metal(groups, ps) ==
    IF ps = <<>> THEN groups
    ELSE group_by_metal(setdefault_append(groups, Head(ps)), Tail(ps))

RECURSIVE classify_candidates(_, _, _, _)
classify_candidates(res, candidates, history, mult) ==
    IF res.exc # NoExc \/ candidates = <<>> THEN res
    ELSE classify_candidates(Classify(res.val, Head(candidates), history, mult),
                             Tail(candidates), history, mult)

RECURSIVE classify_metals(_, _, _, _)
classify_metals(res, groups, lookup, mult) ==
    IF res.exc # NoExc \/ groups = <<>> THEN res
    ELSE classify_metals(
            classify_candidates(res, Head(groups).candidates,
                                HistoryGet(lookup, Head(groups).metal), mult),
            Tail(groups), lookup, mult)

normalize(batch, lookup, mult) ==
    classify_metals(Ret(NewResult), group_by_metal(<<>>, batch), lookup, mult)

----------------------------------------------------------------------------
(* The pricing ingestor: ingest_tick and the tables it writes.  Time is a
   count of instants, DayLength instants to the day. *)

OUTLIER_MULTIPLIER == 3

ROLLING_MEDIAN_DAYS == 7

\* The adapters in the order ingest_tick calls them
Adapters == <<"metals_api", "lbma">>

IngestValues == {2, 8}

DateOf(t) == t \div DayLength

\* fetched_at.replace(hour=10, minute=30, ...): the instant of the day's fix,
\* which a tick of that day can come before, at or after
FixOf(t) == DateOf(t) * DayLength + DayLength \div 2

\* What an adapter's fetch_prices can do at instant t: raise, return
\* nothing, or return a quote.  metals_api stamps price_ts and source_id with
\* the instant; lbma stamps price_ts with the day's fix and source_id with
\* the date.
FetchOutcomes(adapter, t) ==
    {Raise("HTTPError"), Ret(<<>>)}
    \cup {Ret(<<[source |-> adapter, metal |-> "XAU", value |-> v,
                 price_ts |-> IF adapter = "lbma" THEN FixOf(t) ELSE t,
                 source_id |-> IF adapter = "lbma" THEN <<adapter, "date", DateOf(t)>>
                               ELSE <<adapter, "at", t>>]>>) :
            v \in IngestValues}

\* all_prices.extend(prices): the new PricePoint objects, told apart by id
Extend(all_prices, prices) ==
    all_prices \o [k \in 1..Len(prices) |->
                      [id |-> Len(all_prices) + k, source |-> prices[k].source,
                       metal |-> prices[k].metal, value |-> prices[k].value,
                       price_ts |-> prices[k].price_ts,
                       source_id |-> prices[k].source_id]]

\* The columns on which a second insert of the same quote conflicts
RawKey(r) == <<r.source, r.source_id>>

\* INSERT INTO prices_raw ... ON CONFLICT DO NOTHING RETURNING id;
\* return row["id"] if row else -1
insert_raw_price_unstored(raw, p) == [rows |-> raw, raw_id |-> Len(raw) + 1]

insert_raw_price(raw, p) ==
    IF \E k \in 1..Len(raw) : RawKey(raw[k]) = RawKey(p)
    THEN [rows |-> raw, raw_id |-> 0 - 1]
    ELSE [rows |-> Append(raw, [id |-> Len(raw) + 1, source |-> p.source,
                                metal |-> p.metal, price_ts |-> p.price_ts,
                                value |-> DecimalToFloat(p.value),
                                source_id |-> p.source_id]),
          raw_id |-> Len(raw) + 1]

\* INSERT INTO prices_canonical ... ON CONFLICT (metal, price_ts) DO UPDATE
promote_to_canonical(canonical, p, raw_id) ==
    {r \in canonical : ~(r.metal = p.metal /\ r.price_ts = p.price_ts)}
    \cup {[metal |-> p.metal, price_ts |-> p.price_ts,
           value |-> DecimalToFloat(p.value), source |-> p.source,
           raw_id |-> raw_id]}

RECURSIVE OrderByPriceTs(_)
OrderByPriceTs(rows) ==
    IF rows = {} THEN <<>>
    ELSE LET r == CHOOSE x \in rows : \A y \in rows : x.price_ts <= y.price_ts
         IN  <<r>> \o OrderByPriceTs(rows \ {r})

\* SELECT value FROM prices_canonical WHERE metal = $1 AND price_ts >= $2
\* ORDER BY price_ts, with $2 = now - days
get_historical_values(canonical, metal, t) ==
    LET since == t - ROLLING_MEDIAN_DAYS * DayLength
        rows  == OrderByPriceTs({r \in canonical :
                                    r.metal = metal /\ r.price_ts >= since})
    IN  [k \in 1..Len(rows) |-> rows[k].value]

\* _sha256(payload): a digest that tells payloads apart
sha256(payload) == [sha256_of |-> payload]

\* write_audit_entry_async: one row appended to audit_log
write_audit_entry_async(log, request_id, actor, action, payload) ==
    Append(log, [request_id |-> request_id, actor |-> actor, action |-> action,
                 payload_hash |-> sha256(payload)])

\* The sleep between ticks, in instants
ClockSteps == {1}

\* request_id = uuid.uuid4(); all_prices = []
TickStart ==
    /\ tick_pc \in {"idle", "returned", "failed", "done"}
    /\ started < MaxTicks
    /\ started' = started + 1
    /\ \E d \in ClockSteps : now' = now + d
    /\ tick' = [NoTick EXCEPT !.request_id = started + 1]
    /\ tick_pc' = "fetch"
    /\ UNCHANGED <<prices_raw, prices_canonical, audit_log>>
    /\ UNCHANGED other_than_t

\* try: prices = await fetch_fn(); all_prices.extend(prices)
\* except Exception: log.error(...)
FetchAborts(adapter, o) ==
    IF o.exc # NoExc
    THEN /\ tick_pc' = "failed"
         /\ tick' = tick
    ELSE /\ tick_pc' = tick_pc
         /\ tick' = [tick EXCEPT !.all_prices = Extend(@, o.val),
                                 !.ai = @ + 1,
                                 !.log = Append(@, [adapter |-> adapter,
                                                    event |-> "returned",
                                                    prices |-> Len(o.val)])]

FetchCaught(adapter, o) ==
    /\ tick_pc' = tick_pc
    /\ tick' = IF o.exc # NoExc
               THEN [tick EXCEPT !.ai = @ + 1,
                                 !.log = Append(@, [adapter |-> adapter,
                                                    event |-> "failed",
                                                    prices |-> 0])]
               ELSE [tick EXCEPT !.all_prices = Extend(@, o.val),
                                 !.ai = @ + 1,
                                 !.log = Append(@, [adapter |-> adapter,
                                                    event |-> "returned",
                                                    prices |-> Len(o.val)])]

Fetch ==
    /\ tick_pc = "fetch"
    /\ tick.ai <= Len(Adapters)
    /\ \E o \in FetchOutcomes(Adapters[tick.ai], now) :
          FetchCaught(Adapters[tick.ai], o)
    /\ UNCHANGED <<now, prices_raw, prices_canonical, audit_log, started>>
    /\ UNCHANGED other_than_t

\* if not all_prices: log.warning(...); return
NoPrices ==
    /\ tick_pc = "fetch"
    /\ tick.ai > Len(Adapters)
    /\ tick.all_prices = <<>>
    /\ tick_pc' = "returned"
    /\ UNCHANGED <<now, prices_raw, prices_canonical, audit_log, started, tick>>
    /\ UNCHANGED other_than_t

\* historical = {metal: await get_historical_values(pool, metal)};
\* result = normalize(all_prices, historical); promoted = 0
Normalize ==
    /\ tick_pc = "fetch"
    /\ tick.ai > Len(Adapters)
    /\ tick.all_prices # <<>>
    /\ LET metals     == {tick.all_prices[k].metal : k \in 1..Len(tick.all_prices)}
           historical == [m \in metals |->
                             get_historical_values(prices_canonical, m, now)]
           res        == normalize(tick.all_prices, historical, OUTLIER_MULTIPLIER)
       IN  IF res.exc # NoExc
           THEN /\ tick_pc' = "failed"
                /\ tick' = [tick EXCEPT !.historical = historical]
           ELSE /\ tick_pc' = "store"
                /\ tick' = [tick EXCEPT !.historical = historical,
                                        !.result = res.val,
                                        !.promoted = 0, !.pi = 1]
    /\ UNCHANGED <<now, prices_raw, prices_canonical, audit_log, started>>
    /\ UNCHANGED other_than_t

IsListed(res, price) ==
    \/ \E j \in 1..Len(res.accepted) : res.accepted[j].id = price.id
    \/ \E j \in 1..Len(res.rejected) : res.rejected[j].price.id = price.id

\* any(p is price for p in result.accepted)
IsAccepted(res, price) ==
    \E j \in 1..Len(res.accepted) : res.accepted[j].id = price.id

\* if raw_id > 0:
RawIdPositive(raw_id) == raw_id > 0

\* if any(p is price for p in result.accepted):
PromotesAll(res, price) == TRUE

Promotes(res, price) == IsAccepted(res, price)

\* One iteration of: for price in all_prices:
\*     raw_id = await insert_raw_price(pool, price)
\*     if accepted: if raw_id > 0: await promote_to_canonical(...); promoted += 1
StorePrice ==
    /\ tick_pc = "store"
    /\ tick.pi <= Len(tick.all_prices)
    /\ LET price == tick.all_prices[tick.pi]
           ins   == insert_raw_price(prices_raw, price)
           go    == Promotes(tick.result, price) /\ RawIdPositive(ins.raw_id)
       IN  /\ prices_raw' = ins.rows
           /\ prices_canonical' =
                 IF go THEN promote_to_canonical(prices_canonical, price, ins.raw_id)
                 ELSE prices_canonical
           /\ tick' = [tick EXCEPT !.pi = @ + 1,
                                   !.promoted = IF go THEN @ + 1 ELSE @]
    /\ UNCHANGED <<now, audit_log, started, tick_pc>>
    /\ UNCHANGED other_than_t

\* await write_audit_entry_async(...) with the tick's counts
WriteAudit ==
    /\ tick_pc = "store"
    /\ tick.pi > Len(tick.all_prices)
    /\ audit_log' = write_audit_entry_async(audit_log, tick.request_id,
          "pricing_ingestor", "ingest_tick",
          [fetched |-> Len(tick.all_prices),
           accepted |-> Len(tick.result.accepted),
           rejected |-> Len(tick.result.rejected),
           promoted |-> tick.promoted])
    /\ tick_pc' = "done"
    /\ UNCHANGED <<now, prices_raw, prices_canonical, started, tick>>
    /\ UNCHANGED other_than_t

\* An awaited database call raises: the tick ends there, and main() logs the
\* exception.  Either nothing was written by the call, or the raw row of an
\* accepted quote was written and the promotion raised.
DbRaises ==
    /\ tick_pc = "store"
    /\ tick_pc' = "failed"
    /\ \/ UNCHANGED prices_raw
       \/ /\ tick.pi <= Len(tick.all_prices)
          /\ Promotes(tick.result, tick.all_prices[tick.pi])
          /\ prices_raw' = insert_raw_price(prices_raw, tick.all_prices[tick.pi]).rows
          /\ prices_raw' # prices_raw
    /\ UNCHANGED <<now, prices_canonical, audit_log, started, tick>>
    /\ UNCHANGED other_than_t

\* The ingestor starts at some instant of a day, on a database that holds
\* nothing or one seeded canonical price
InitIngest ==
    /\ now \in 0..(DayLength - 1)
    /\ prices_raw = <<>>
    /\ prices_canonical \in
          {{}, {[metal |-> "XAU", price_ts |-> 0, value |-> 2,
                 source |-> "seed", raw_id |-> 0]}}
    /\ audit_log = <<>>
    /\ started = 0
    /\ tick_pc = "idle"
    /\ tick = NoTick
    /\ NormIdle
    /\ IoIdle
    /\ SbIdle
    /\ ConcIdle
    /\ PolicyIdle
    /\ EgressIdle
    /\ LedgerIdle
    /\ OrchIdle

NextIngest ==
    \/ TickStart
    \/ Fetch
    \/ NoPrices
    \/ Normalize
    \/ StorePrice
    \/ WriteAudit
    \/ DbRaises

SpecIngest == InitIngest /\ [][NextIngest]_vars

----------------------------------------------------------------------------
(* The orchestrator's policy gate: check_action on a database that takes
   every write *)

AGENT_BLOCKED_ACTIONS ==
    {"POST /journal_entries", "PATCH /journal_entries", "PUT /journal_entries",
     "DELETE /journal_entries", "create_journal_entry", "modify_journal_entry"}

APPROVAL_REQUIRED_ACTIONS ==
    {"UPDATE source_configs", "INSERT source_configs", "DELETE source_configs",
     "mutate_source_config"}

\* The actions and actors check_action is called with: the two sets, the
\* scheduler's own action, and actors that are and are not "agent"
PolicyActions ==
    AGENT_BLOCKED_ACTIONS \cup APPROVAL_REQUIRED_ACTIONS \cup {"POST /forecast/run"}

PolicyActors == {"agent", "HUMAN", "AGENT"}

\* Rows of the approvals table: expires_at is NULL, in the future or past
ApprovalRows ==
    {[config_key |-> "sources", revoked |-> FALSE, expires_at |-> "null"],
     [config_key |-> "sources", revoked |-> FALSE, expires_at |-> "future"],
     [config_key |-> "sources", revoked |-> FALSE, expires_at |-> "past"],
     [config_key |-> "sources", revoked |-> TRUE, expires_at |-> "null"]}

\* SELECT id FROM approvals WHERE NOT revoked
\*   AND (expires_at IS NULL OR expires_at > NOW()) LIMIT 1
has_any_approval(rows, action) == rows # {}

has_active_approval(rows, action) ==
    \E r \in rows : ~r.revoked /\ r.expires_at \in {"null", "future"}

\* INSERT INTO policy_events (action, actor, result, reason)
log_policy_event(events, action, actor, verdict, reason) ==
    Append(events, [action |-> action, actor |-> actor, result |-> verdict,
                    reason |-> reason])

Guardrail1 == "Guardrail #1: agent is not permitted to create or modify journal entries"

Guardrail2 == "Guardrail #2: source config mutations require HUMAN-signed approval"

DeniedUnaudited(db, request_id, action, actor, reason) ==
    [outcome |-> Raise("PolicyViolation"),
     events  |-> log_policy_event(db.events, action, actor, "DENIED", <<reason>>),
     audit   |-> db.audit]

\* The denial path: policy event, audit entry, raise PolicyViolation
Denied(db, request_id, action, actor, reason) ==
    [outcome |-> Raise("PolicyViolation"),
     events  |-> log_policy_event(db.events, action, actor, "DENIED", <<reason>>),
     audit   |-> write_audit_entry_async(db.audit, request_id, actor, action,
                    [action |-> action, actor |-> actor, result |-> "DENIED",
                     reason |-> <<reason>>])]

\* The allowed path: audit entry, policy event, return "ALLOWED"
Allowed(db, request_id, action, actor) ==
    [outcome |-> Ret("ALLOWED"),
     audit   |-> write_audit_entry_async(db.audit, request_id, actor, action,
                    [action |-> action, actor |-> actor, result |-> "ALLOWED",
                     reason |-> <<>>]),
     events  |-> log_policy_event(db.events, action, actor, "ALLOWED", <<>>)]

check_action_any_actor(action, actor, db, request_id) ==
    IF action \in AGENT_BLOCKED_ACTIONS
    THEN Denied(db, request_id, action, actor, Guardrail1)
    ELSE IF action \in APPROVAL_REQUIRED_ACTIONS
            /\ ~has_active_approval(db.approvals, action)
    THEN Denied(db, request_id, action, actor, Guardrail2)
    ELSE Allowed(db, request_id, action, actor)

check_action(action, actor, db, request_id) ==
    IF actor = "agent" /\ action \in AGENT_BLOCKED_ACTIONS
    THEN Denied(db, request_id, action, actor, Guardrail1)
    ELSE IF action \in APPROVAL_REQUIRED_ACTIONS
            /\ ~has_active_approval(db.approvals, action)
    THEN Denied(db, request_id, action, actor, Guardrail2)
    ELSE Allowed(db, request_id, action, actor)

\* One call of check_action, with a fresh request id
CheckAction ==
    /\ checks < MaxChecks
    /\ \E action \in PolicyActions, actor \in PolicyActors :
         LET c == check_action(action, actor,
                     [approvals |-> approvals, events |-> policy_events,
                      audit |-> policy_audit], checks + 1)
         IN  /\ policy_events' = c.events
             /\ policy_audit' = c.audit
             /\ last_check' = [action |-> action, actor |-> actor,
                         outcome |-> c.outcome]
    /\ checks' = checks + 1
    /\ UNCHANGED approvals
    /\ UNCHANGED other_than_p

InitPolicy ==
    /\ approvals \in SUBSET ApprovalRows
    /\ policy_events = <<>>
    /\ policy_audit = <<>>
    /\ checks = 0
    /\ last_check = NoCheck
    /\ NormIdle
    /\ IoIdle
    /\ SbIdle
    /\ ConcIdle
    /\ TickIdle
    /\ EgressIdle
    /\ LedgerIdle
    /\ OrchIdle

NextPolicy == CheckAction

SpecPolicy == InitPolicy /\ [][NextPolicy]_vars

----------------------------------------------------------------------------
(* The egress guard. A string is the sequence of its pieces: the words
   between punctuation marks, and each punctuation mark *)

MaxEgressCalls == 2

\* config.EGRESS_ALLOWLIST, which egress.ALLOWLIST re-exports
EGRESS_ALLOWLIST ==
    <<<<"iscrapapp", ".", "com">>,
      <<"scrapregister", ".", "com">>,
      <<"api", ".", "fastmarkets", ".", "com">>,
      <<"www", ".", "recyclingtoday", ".", "com">>>>

\* str.startswith, str.endswith, str.lower, and str.split(sep)[0]
startswith(s, prefix) ==
    Len(s) >= Len(prefix) /\ SubSeq(s, 1, Len(prefix)) = prefix

endswith(s, suffix) ==
    Len(s) >= Len(suffix) /\ SubSeq(s, Len(s) - Len(suffix) + 1, Len(s)) = suffix

LowerOf(piece) ==
    CASE piece = "WWW" -> "www"
      [] piece = "Iscrapapp" -> "iscrapapp"
      [] OTHER -> piece

lower(s) == [i \in 1..Len(s) |-> LowerOf(s[i])]

\* The 1-based positions of the pieces of s that are in marks
PositionsOf(s, marks) == {i \in 1..Len(s) : s[i] \in marks}

Least(S) == CHOOSE i \in S : \A j \in S : i <= j

split_first(s, sep) ==
    IF PositionsOf(s, {sep}) = {} THEN s
    ELSE SubSeq(s, 1, Least(PositionsOf(s, {sep})) - 1)

\* urllib.parse.urlparse: a scheme when the URL starts with one and a colon,
\* a netloc when "//" follows, running up to the next "/", "?" or "#"
urlparse(url) ==
    LET scheme == startswith(url, <<"https", ":">>)
        rest == IF scheme THEN SubSeq(url, 3, Len(url)) ELSE url
        tail == SubSeq(rest, 3, Len(rest))
        stops == PositionsOf(tail, {"/", "?", "#"})
        cut == IF stops = {} THEN Len(tail) + 1 ELSE Least(stops)
    IN  IF startswith(rest, <<"/", "/">>)
        THEN [netloc |-> SubSeq(tail, 1, cut - 1),
              path |-> SubSeq(tail, cut, Len(tail))]
        ELSE [netloc |-> <<>>, path |-> rest]

\* egress._extract_domain: netloc or path, port cut off, a leading "www."
\* removed, then lower-cased
extract_domain(url) ==
    LET parsed == urlparse(url)
        text == IF parsed.netloc # <<>> THEN parsed.netloc ELSE parsed.path
        host == split_first(text, ":")
    IN  lower(IF startswith(host, <<"www", ".">>)
              THEN SubSeq(host, 3, Len(host)) ELSE host)

\* The loop over ALLOWLIST both guards run
on_allowlist(host) ==
    \E i \in 1..Len(EGRESS_ALLOWLIST) :
        \/ host = EGRESS_ALLOWLIST[i]
        \/ endswith(host, <<".">> \o EGRESS_ALLOWLIST[i])

\* egress._check_allowlist
check_allowlist(url) ==
    IF on_allowlist(extract_domain(url)) THEN Ret(None)
    ELSE Raise("EgressViolation")

\* policy.check_egress: netloc only, port cut off, lower-cased, then a
\* leading "www." removed
check_egress(url) ==
    LET host == lower(split_first(urlparse(url).netloc, ":"))
        bare == IF startswith(host, <<"www", ".">>)
                THEN SubSeq(host, 3, Len(host)) ELSE host
    IN  IF on_allowlist(bare) THEN Ret(None) ELSE Raise("EgressViolation")

\* The hosts, ports and user parts of the URLs the guards are asked about
EgressHosts ==
    {<<"iscrapapp", ".", "com">>,
     <<"Iscrapapp", ".", "com">>,
     <<"data", ".", "iscrapapp", ".", "com">>,
     <<"www", ".", "iscrapapp", ".", "com">>,
     <<"evil", "iscrapapp", ".", "com">>,
     <<"evil", ".", "com">>,
     <<"scrapregister", ".", "com">>,
     <<"api", ".", "fastmarkets", ".", "com">>,
     <<"fastmarkets", ".", "com">>,
     <<"www", ".", "recyclingtoday", ".", "com">>,
     <<"WWW", ".", "recyclingtoday", ".", "com">>,
     <<"recyclingtoday", ".", "com">>,
     <<"metals-api", ".", "com">>,
     <<"data", ".", "metals-api", ".", "com">>,
     <<"metals-api", ".", "org">>,
     <<"api", ".", "lbma", ".", "org", ".", "uk">>}

EgressPorts == {<<>>, <<":", "8443">>}

EgressUsers ==
    {<<>>, <<"user", "@">>, <<"iscrapapp", ".", "com", ":", "pw", "@">>}

\* https://[user@]host[:port]/path, and a host and path without a scheme
EgressUrls ==
    {<<"https", ":", "/", "/">> \o user \o host \o port \o <<"/", "path">> :
        user \in EgressUsers, host \in EgressHosts, port \in EgressPorts}
    \cup {host \o <<"/", "path">> : host \in EgressHosts}

\* What the HTTP client gives once the request is sent
HttpOutcomes == {Ret("response"), Raise("HTTPError")}

\* egress_get / egress_post: the check, then the request
egress_request(method, fn, url) ==
    /\ egress_calls < MaxEgressCalls
    /\ egress_calls' = egress_calls + 1
    /\ LET checked == check_allowlist(url)
       IN  IF checked.exc # NoExc
           THEN /\ egress_last' = [fn |-> fn, url |-> url, outcome |-> checked]
                /\ UNCHANGED requests
           ELSE /\ requests' = Append(requests, [method |-> method, url |-> url])
                /\ \E response \in HttpOutcomes :
                     egress_last' = [fn |-> fn, url |-> url, outcome |-> response]
    /\ UNCHANGED other_than_e

EgressGet == \E url \in EgressUrls : egress_request("GET", "egress_get", url)

EgressPost == \E url \in EgressUrls : egress_request("POST", "egress_post", url)

\* One call of policy.check_egress: no request is made
CheckEgress ==
    /\ egress_calls < MaxEgressCalls
    /\ egress_calls' = egress_calls + 1
    /\ \E url \in EgressUrls :
         egress_last' = [fn |-> "check_egress", url |-> url,
                         outcome |-> check_egress(url)]
    /\ UNCHANGED requests
    /\ UNCHANGED other_than_e

InitEgress ==
    /\ NormIdle
    /\ IoIdle
    /\ SbIdle
    /\ ConcIdle
    /\ TickIdle
    /\ PolicyIdle
    /\ EgressIdle
    /\ LedgerIdle
    /\ OrchIdle

NextEgress ==
    \/ EgressGet
    \/ EgressPost
    \/ CheckEgress

SpecEgress == InitEgress /\ [][NextEgress]_vars

----------------------------------------------------------------------------
(* The ledger service: POST /journal_entries *)

MaxPosts == 2

MaxLines == 3

\* The X-API-Role header: absent, or one of these
LedgerRoles == {None, Some("HUMAN"), Some("agent"), Some("human")}

\* Amounts of a line, as Decimals
LedgerAmounts == {1, 8, 9}

\* JournalLineIn bodies: a debit, a credit, neither, or both
LedgerLines ==
    {[account_id |-> 1, debit |-> a, credit |-> 0] : a \in LedgerAmounts}
    \cup {[account_id |-> 2, debit |-> 0, credit |-> a] : a \in LedgerAmounts}
    \cup {[account_id |-> 1, debit |-> 0, credit |-> 0],
          [account_id |-> 1, debit |-> 1, credit |-> 1]}

LedgerBodies == UNION {[1..k -> LedgerLines] : k \in 1..MaxLines}

\* sum(ln.debit for ln in lines), sum(ln.credit for ln in lines)
RECURSIVE total_of(_, _)
total_of(lines, side) ==
    IF lines = <<>> THEN 0
    ELSE (IF side = "debit" THEN lines[1].debit ELSE lines[1].credit)
         + total_of(Tail(lines), side)

\* JournalLineIn.check_exclusive
check_exclusive(ln) == ~(ln.debit > 0 /\ ln.credit > 0)

\* JournalEntryIn.check_balance
check_balance(lines) == total_of(lines, "debit") = total_of(lines, "credit")

\* The request body parses as a JournalEntryIn: at least two lines, every
\* line valid, the entry balanced
ValidBody(lines) ==
    /\ Len(lines) >= 2
    /\ \A i \in 1..Len(lines) : check_exclusive(lines[i])
    /\ check_balance(lines)

\* models.create_journal_entry: the balance recheck, then one journal_entries
\* row and one journal_lines row per line, the amounts as floats
create_journal_entry(db, created_by, lines) ==
    IF total_of(lines, "debit") # total_of(lines, "credit")
    THEN [outcome |-> Raise("ValueError"), entries |-> db.entries,
          lines |-> db.lines]
    ELSE LET entry_id == Len(db.entries) + 1
         IN  [outcome |-> Ret(entry_id),
              entries |-> Append(db.entries,
                            [id |-> entry_id, created_by |-> created_by,
                             status |-> "POSTED"]),
              lines |-> db.lines \o
                  [i \in 1..Len(lines) |->
                      [entry_id |-> entry_id,
                       account_id |-> lines[i].account_id,
                       debit |-> DecimalToFloat(lines[i].debit),
                       credit |-> DecimalToFloat(lines[i].credit)]]]

\* endpoints.create_entry behind the body validation of its payload
\* parameter: 422 for a body that does not parse, 403 and a DENIED audit
\* entry for a role other than HUMAN, else the entry and a CREATED audit entry
create_entry(db, request_id, role, lines) ==
    IF ~ValidBody(lines)
    THEN [status |-> 422, entries |-> db.entries, lines |-> db.lines,
          audit |-> db.audit]
    ELSE IF role # Some("HUMAN")
    THEN [status |-> 403, entries |-> db.entries, lines |-> db.lines,
          audit |-> write_audit_entry_async(db.audit, request_id,
                        IF role = None \/ role = Some("") THEN "anonymous"
                        ELSE role[1],
                        "POST /journal_entries",
                        [status |-> "DENIED", reason |-> "non-HUMAN role"])]
    ELSE LET made == create_journal_entry(db, role[1], lines)
         IN  IF made.outcome.exc # NoExc
             THEN [status |-> 400, entries |-> db.entries, lines |-> db.lines,
                   audit |-> db.audit]
             ELSE [status |-> 201, entries |-> made.entries,
                   lines |-> made.lines,
                   audit |-> write_audit_entry_async(db.audit, request_id,
                                 role[1], "POST /journal_entries",
                                 [entry_id |-> made.outcome.val,
                                  status |-> "CREATED"])]

\* One POST /journal_entries request
PostJournalEntry ==
    /\ posts < MaxPosts
    /\ posts' = posts + 1
    /\ \E role \in LedgerRoles, lines \in LedgerBodies :
         LET done == create_entry([entries |-> journal_entries,
                                   lines |-> journal_lines,
                                   audit |-> ledger_audit],
                                  posts + 1, role, lines)
         IN  /\ journal_entries' = done.entries
             /\ journal_lines' = done.lines
             /\ ledger_audit' = done.audit
             /\ ledger_last' = [role |-> role, lines |-> lines,
                                status |-> done.status]
    /\ UNCHANGED other_than_l

InitLedger ==
    /\ NormIdle
    /\ IoIdle
    /\ SbIdle
    /\ ConcIdle
    /\ TickIdle
    /\ PolicyIdle
    /\ EgressIdle
    /\ LedgerIdle
    /\ OrchIdle

NextLedger == PostJournalEntry

SpecLedger == InitLedger /\ [][NextLedger]_vars

----------------------------------------------------------------------------
(* The orchestrator's scheduled tick *)

MaxOrchTicks == 2

\* What check_action gives the tick: its verdict and its rows, or the
\* exception of a database that cannot be reached, with nothing written
CheckOutcomes(db, request_id) ==
    {check_action("POST /forecast/run", "agent", db, request_id),
     [outcome |-> Raise("ConnectionError"), events |-> db.events,
      audit |-> db.audit]}

\* try: await check_action(...)  except PolicyViolation: return
\* Any other exception leaves orchestrator_tick and is logged by run_loop.
AfterCheckUnguarded(outcome) == "trigger"

AfterCheck(outcome) ==
    IF outcome.exc = "PolicyViolation" THEN "blocked"
    ELSE IF outcome.exc # NoExc THEN "error"
    ELSE "trigger"

\* trigger_forecast_run: the response of POST /forecast/run, or the error
\* dict when the request fails
ForecastResults ==
    {[forecasts_created |-> 1, error |-> ""],
     [forecasts_created |-> 0, error |-> "HTTPError"]}

\* The scheduler fires: orchestrator_tick begins
OrchStart ==
    /\ o_pc \in {"idle", "blocked", "error", "done"}
    /\ o_ticks < MaxOrchTicks
    /\ o_ticks' = o_ticks + 1
    /\ o_pc' = "check"
    /\ o_check' = Pending
    /\ o_forecast' = NoForecast
    /\ UNCHANGED <<forecast_runs, reports>>
    /\ UNCHANGED <<p_vars, other_than_o_p>>

\* await check_action("POST /forecast/run", "agent", pool)
OrchCheck ==
    /\ o_pc = "check"
    /\ \E c \in CheckOutcomes([approvals |-> approvals, events |-> policy_events,
                               audit |-> policy_audit], o_ticks) :
         /\ policy_events' = c.events
         /\ policy_audit' = c.audit
         /\ o_check' = c.outcome
         /\ o_pc' = AfterCheck(c.outcome)
    /\ UNCHANGED <<o_ticks, o_forecast, forecast_runs, reports>>
    /\ UNCHANGED <<approvals, checks, last_check, other_than_o_p>>

\* forecast_result = await trigger_forecast_run(pool)
OrchTrigger ==
    /\ o_pc = "trigger"
    /\ forecast_runs' = Append(forecast_runs, o_ticks)
    /\ \E forecast_result \in ForecastResults : o_forecast' = forecast_result
    /\ o_pc' = "report"
    /\ UNCHANGED <<o_ticks, o_check, reports>>
    /\ UNCHANGED <<p_vars, other_than_o_p>>

\* await generate_and_store_report(pool, forecast_result): the report is
\* stored, or the call raises
OrchReport ==
    /\ o_pc = "report"
    /\ \/ /\ reports' = Append(reports, [tick |-> o_ticks,
                                         forecast_result |-> o_forecast])
          /\ o_pc' = "done"
       \/ /\ reports' = reports
          /\ o_pc' = "error"
    /\ UNCHANGED <<o_ticks, o_check, o_forecast, forecast_runs>>
    /\ UNCHANGED <<p_vars, other_than_o_p>>

InitOrch ==
    /\ approvals \in SUBSET ApprovalRows
    /\ policy_events = <<>>
    /\ policy_audit = <<>>
    /\ checks = 0
    /\ last_check = NoCheck
    /\ NormIdle
    /\ IoIdle
    /\ SbIdle
    /\ ConcIdle
    /\ TickIdle
    /\ EgressIdle
    /\ LedgerIdle
    /\ OrchIdle

NextOrch ==
    \/ OrchStart
    \/ OrchCheck
    \/ OrchTrigger
    \/ OrchReport

SpecOrch == InitOrch /\ [][NextOrch]_vars

----------------------------------------------------------------------------
(* The normaliser's specification *)

Init ==
    /\ NormIdle
    /\ IoIdle
    /\ SbIdle
    /\ ConcIdle
    /\ TickIdle
    /\ PolicyIdle
    /\ EgressIdle
    /\ LedgerIdle
    /\ OrchIdle

Next ==
    \/ Call
    \/ GroupStep
    \/ GroupDone
    \/ ClassifyStep
    \/ Return
    \/ Forget
    \/ CallAgain
    \/ CallVaried

Spec == Init /\ [][Next]_vars

----------------------------------------------------------------------------
(* Properties of normalize *)

Range(s) == {s[k] : k \in 1..Len(s)}

Occurrences(res, p) ==
    Cardinality({j \in 1..Len(res.accepted) : res.accepted[j] = p})
    + Cardinality({j \in 1..Len(res.rejected) : res.rejected[j].price = p})

\* C1: when normalize has returned, the lengths of accepted and rejected add
\* up to the length of the batch, and every observation of the batch is in
\* exactly one of the two lists, exactly once.
C1_Partition ==
    pc = "done" =>
        /\ Len(result.accepted) + Len(result.rejected) = Len(incoming)
        /\ \A p \in Range(incoming) :
              /\ Occurrences(result, p) = 1
              /\ InAccepted(result, p) # InRejected(result, p)

C1_Witness ==
    /\ pc = "done"
    /\ Len(incoming) >= 2
    /\ result.accepted # <<>>
    /\ result.rejected # <<>>

\* The median of a non-empty history, as the code computes it
MedianOf(h) == median(h).val

\* value > multiplier * median, in exact arithmetic
ExceedsThreshold(value, mult, h) ==
    /\ h # <<>>
    /\ MedianOf(h) # 0
    /\ value > mult * MedianOf(h)

\* C2: when normalize has returned, an observation is rejected if and only if
\* the history of its own metal (empty when the lookup has no entry) is
\* non-empty, has a nonzero median, and the observation's value is strictly
\* greater than multiplier * median; every other observation is accepted.
C2_RejectedIffAboveThreshold ==
    pc = "done" =>
        \A p \in Range(incoming) :
            /\ InRejected(result, p)
                 <=> ExceedsThreshold(p.value, multiplier,
                                      HistoryGet(historical_lookup, p.metal))
            /\ InAccepted(result, p) <=> ~InRejected(result, p)

\* C5: when normalize has returned, every accepted observation has
\* value > 0.
C5_AcceptedPositive ==
    pc = "done" =>
        \A j \in 1..Len(result.accepted) : result.accepted[j].value > 0

\* C6: when a call has returned whose inputs agree with an earlier call's on
\* the observations and the history of one metal, and differ in other
\* metals, the observations of that metal are accepted and rejected as in
\* the earlier call.
C6_PerMetalIndependence ==
    (pc = "done" /\ ref.kind = "varied") =>
        DecisionsFor(ref.metal, incoming, result) = ref.decisions

C6_Witness ==
    /\ pc = "done"
    /\ ref.kind = "varied"
    /\ \E k \in 1..Len(ref.decisions) :
          /\ ref.decisions[k].rejected
          /\ \E p \in Range(incoming) :
                /\ p.metal # ref.metal
                /\ p.value = ref.decisions[k].value
                /\ InAccepted(result, p)

\* C9: normalize never raises: no step ends in an exception, a running call
\* reads only elements that exist (so its next step is defined), and a call
\* that has returned has an outcome holding every observation of the batch.
C9_NeverRaises ==
    /\ pc # "raised"
    /\ exc = NoExc
    /\ pc = "group" => gi \in 1..(Len(incoming) + 1)
    /\ pc = "classify" =>
          /\ mi \in 1..(Len(by_metal) + 1)
          /\ mi <= Len(by_metal) => ci \in 1..Len(by_metal[mi].candidates)
    /\ pc = "done" =>
          Range(incoming) =
              Range(result.accepted)
                \cup {result.rejected[j].price : j \in 1..Len(result.rejected)}

C9_Witness ==
    /\ pc = "done"
    /\ \E p \in Range(incoming) : p.metal \notin DOMAIN historical_lookup
    /\ \E p \in Range(incoming) :
          /\ p.metal \in DOMAIN historical_lookup
          /\ historical_lookup[p.metal] = <<0>>
          /\ p.value > 0

\* C10: a second call on the identical batch and the identical historical
\* snapshot returns the same accepted list and the same rejected list, in
\* the same order.
C10_Idempotent ==
    (pc = "done" /\ ref.kind = "same") => result = ref.result

C10_Witness ==
    /\ pc = "done"
    /\ ref.kind = "same"
    /\ Len(result.accepted) >= 1
    /\ Len(result.rejected) >= 1

\* The position in the batch of an object of the batch
PositionIn(batch, p) == CHOOSE k \in 1..Len(batch) : batch[k] = p

\* Two observations of one metal stand in ps in the order they have in batch
InBatchOrder(ps, batch) ==
    \A i, j \in 1..Len(ps) :
        (i < j /\ ps[i].metal = ps[j].metal)
            => PositionIn(batch, ps[i]) < PositionIn(batch, ps[j])

\* C14: when normalize has returned, the observations of each metal stand in
\* the accepted list in the same relative order as in the batch, and
\* likewise in the rejected list.
C14_StablePerMetal ==
    pc = "done" =>
        /\ InBatchOrder(result.accepted, incoming)
        /\ InBatchOrder([j \in 1..Len(result.rejected) |-> result.rejected[j].price],
                        incoming)

C14_Witness ==
    /\ pc = "done"
    /\ Len(incoming) = 2
    /\ incoming[1].metal = incoming[2].metal
    /\ incoming[1].value # incoming[2].value
    /\ Len(result.rejected) = 2
    /\ result.rejected[1].price = incoming[1]

\* What one call of normalize returns when nothing else runs: the batch
\* grouped by metal in order of first appearance, each observation classified
\* against the history the lookup holds for its metal.
MetalsInOrder(batch) ==
    LET firsts == SelectSeq([k \in 1..Len(batch) |-> k],
                            LAMBDA k : \A j \in 1..(k - 1) :
                                          batch[j].metal # batch[k].metal)
    IN  [k \in 1..Len(firsts) |-> batch[firsts[k]].metal]

RECURSIVE Flatten(_)
Flatten(ss) == IF ss = <<>> THEN <<>> ELSE Head(ss) \o Flatten(Tail(ss))

GroupedOrder(batch) ==
    LET ms == MetalsInOrder(batch)
    IN  Flatten([k \in 1..Len(ms) |->
                    SelectSeq(batch, LAMBDA p : p.metal = ms[k])])

RECURSIVE ClassifyAll(_, _, _, _)
ClassifyAll(res, ps, lookup, mult) ==
    IF ps = <<>> THEN res
    ELSE LET p == Head(ps)
             h == IF p.metal \in DOMAIN lookup THEN lookup[p.metal] ELSE <<>>
             c == Classify(res, p, h, mult)
         IN  IF c.exc # NoExc THEN res
             ELSE ClassifyAll(c.val, Tail(ps), lookup, mult)

RunAlone(batch, lookup, mult) ==
    ClassifyAll([accepted |-> <<>>, rejected |-> <<>>], GroupedOrder(batch),
                lookup, mult)

\* C11: no step of a running call changes the batch or the historical lookup
\* it was given (no key added, no value list modified), and whatever calls
\* came before, a call that returns holds the outcome that its own batch,
\* lookup and multiplier give when run alone.
C11_Frame ==
    [][/\ (pc \in {"group", "classify"}) =>
             /\ incoming' = incoming
             /\ historical_lookup' = historical_lookup
       /\ (pc' = "done") =>
             result' = RunAlone(incoming', historical_lookup', multiplier')]_vars

C11_Witness ==
    /\ pc = "done"
    /\ ref.kind # "none"
    /\ \E p \in Range(incoming) : p.metal \notin DOMAIN historical_lookup
    /\ \E p \in Range(incoming) :
          /\ p.metal \in DOMAIN historical_lookup
          /\ Len(historical_lookup[p.metal]) = 2
          /\ historical_lookup[p.metal] # Sorted(historical_lookup[p.metal])
          /\ InRejected(result, p)

\* C12: when callers run normalize interleaved, each on its own batch and
\* its own lookup, every call that has returned holds exactly the outcome
\* its inputs give when run alone, and both of its lists hold observations
\* of its own batch only.
C12_InterleavedAsAlone ==
    \A c \in Callers :
        calls[c].pc = "done" =>
            LET f   == calls[c]
                res == Deref(heap, f.result)
            IN  /\ res = RunAlone(f.incoming, f.historical_lookup, f.multiplier)
                /\ \A j \in 1..Len(res.accepted) : res.accepted[j].owner = c
                /\ \A j \in 1..Len(res.rejected) : res.rejected[j].price.owner = c

\* Caller B entered first (its lists have the lower addresses) and is still
\* classifying; caller A entered later and has already returned.
C12_Witness ==
    /\ calls["A"].pc = "done"
    /\ calls["B"].pc = "classify"
    /\ calls["B"].result.accepted < calls["A"].result.accepted
    /\ heap[calls["A"].result.accepted] # <<>>
    /\ heap[calls["A"].result.rejected] # <<>>
    /\ heap[calls["B"].result.rejected] # <<>>
    /\ calls["B"].mi <= Len(calls["B"].by_metal)

\* The batches that hold the observations of batch in another order
Reorderings(batch) ==
    {[i \in 1..Len(batch) |-> batch[f[i]]] :
        f \in {g \in [1..Len(batch) -> 1..Len(batch)] :
                  \A i, j \in 1..Len(batch) : g[i] = g[j] => i = j}}

\* C29: the membership of accepted and of rejected does not depend on the
\* order of the batch: when normalize has returned, a call on any reordering
\* of the same observations with the same historical lookup returns the same
\* set of accepted observations and the same set of rejected observations.
C29_OrderIndependent ==
    pc = "done" =>
        \A reordered \in Reorderings(incoming) :
            LET other == normalize(reordered, historical_lookup, multiplier)
            IN  /\ other.exc = NoExc
                /\ Range(other.val.accepted) = Range(result.accepted)
                /\ Range(other.val.rejected) = Range(result.rejected)

C29_Witness ==
    /\ pc = "done"
    /\ Len(incoming) = 2
    /\ incoming[1].metal = incoming[2].metal
    /\ incoming[1] # incoming[2]
    /\ Len(result.rejected) = 1
    /\ result.rejected[1].price = incoming[1]
    /\ result.accepted = <<incoming[2]>>
    /\ normalize(<<incoming[2], incoming[1]>>, historical_lookup,
                 multiplier).val.accepted = <<incoming[2]>>

----------------------------------------------------------------------------
(* Properties of is_outlier *)

\* C3: is_outlier returns False, whatever the value and the multiplier, when
\* the history is empty and when the median of the history is zero.
C3_NoHistoryOrZeroMedian ==
    (io_pc = "returned" /\ (io_history = <<>> \/ MedianOf(io_history) = 0))
        => io_result = Ret(FALSE)

C3_Witness ==
    /\ io_pc = "returned"
    /\ io_history = <<2, 0 - 2>>
    /\ io_value = 18
    /\ io_multiplier = 3
    /\ io_result = Ret(FALSE)

\* C4: for a history with nonzero median M, is_outlier returns True if and
\* only if value > multiplier * M (in exact arithmetic).
C4_OutlierIffAboveThreshold ==
    (io_pc = "returned" /\ io_history # <<>> /\ MedianOf(io_history) # 0)
        => /\ io_result.exc = NoExc
           /\ io_result.val <=> (io_value > io_multiplier * MedianOf(io_history))

\* value is less than or equal to every value of the history
AtMostAll(value, h) == \A k \in 1..Len(h) : value <= h[k]

\* C13 as stated: for any non-empty history and any multiplier, a value that
\* is less than or equal to every value in the history is not flagged.
C13_NeverRejectsLow ==
    (io_pc = "returned" /\ io_history # <<>> /\ AtMostAll(io_value, io_history))
        => io_result = Ret(FALSE)

\* C13, amended: for a history with a positive median and a multiplier of at
\* least 1, a value that is less than or equal to every value in the
\* history is not flagged.
C13_NeverRejectsLowAmended ==
    (/\ io_pc = "returned"
     /\ io_history # <<>>
     /\ MedianOf(io_history) > 0
     /\ io_multiplier >= 1
     /\ AtMostAll(io_value, io_history))
        => io_result = Ret(FALSE)

C13_Witness ==
    /\ io_pc = "returned"
    /\ io_history = <<4, 2>>
    /\ io_multiplier = 1
    /\ io_value = 2
    /\ io_result = Ret(FALSE)

----------------------------------------------------------------------------
(* Properties of select_best_price *)

Sources(prices) == {prices[k].source : k \in 1..Len(prices)}

\* The positions of a preference list that some candidate's source matches
Matched(preference, prices) ==
    {k \in 1..Len(preference) : preference[k] \in Sources(prices)}

\* C7: for a non-empty candidate list and a metal with a preference list that
\* some candidate matches, select_best_price returns a candidate whose source
\* is the earliest matched entry of the list, whatever the global ranks.
C7_PreferenceListWins ==
    LET pref == PreferenceOf(sb_metal)
        hits == Matched(pref, sb_prices)
    IN  (sb_pc = "returned" /\ sb_prices # <<>> /\ hits # {}) =>
            /\ sb_result.exc = NoExc
            /\ sb_result.val # None
            /\ sb_result.val[1] \in Range(sb_prices)
            /\ \A k \in hits :
                  sb_result.val[1].source = pref[k] <=> \A i \in hits : k <= i

C7_Witness ==
    /\ sb_pc = "returned"
    /\ sb_metal = "HMS1"
    /\ Len(sb_prices) = 2
    /\ Sources(sb_prices) = {"recycling_today", "scrap_register"}
    /\ sb_prices[1].source = "scrap_register"
    /\ SOURCE_PRIORITY["scrap_register"] < SOURCE_PRIORITY["recycling_today"]
    /\ sb_result.val[1].source = "recycling_today"

\* source s ranks no worse than source t: both known and s's number is not
\* greater, or t unknown
RanksNoWorse(s, t) ==
    \/ t \notin KnownSources
    \/ s \in KnownSources /\ SOURCE_PRIORITY[s] <= SOURCE_PRIORITY[t]

----------------------------------------------------------------------------
(* Properties of the ingest tick *)

\* The running tick has logged the failure of some adapter's fetch
HadFailure(t) == \E k \in 1..Len(t.log) : t.log[k].event = "failed"

\* The observation handled by a step of the store loop
Handled == tick.all_prices[tick.pi]

StoreStep == tick_pc = "store" /\ tick'.pi = tick.pi + 1

InList(ps, p) == \E j \in 1..Len(ps) : ps[j] = p

RejectedPrices(res) == [j \in 1..Len(res.rejected) |-> res.rejected[j].price]

\* The row prices_raw gets for an observation it does not hold yet
RawRowOf(p, id) ==
    [id |-> id, source |-> p.source, metal |-> p.metal, price_ts |-> p.price_ts,
     value |-> p.value, source_id |-> p.source_id]

HasRawRow(raw, p) ==
    \E k \in 1..Len(raw) :
        raw[k].source = p.source /\ raw[k].source_id = p.source_id

HasCanonicalRow(canonical, p, raw_id) ==
    \E r \in canonical :
        /\ r.metal = p.metal /\ r.price_ts = p.price_ts
        /\ r.value = p.value /\ r.source = p.source /\ r.raw_id = raw_id

\* C15: the failure of one adapter's fetch does not abort the tick.  No step
\* of the fetch loop ends the tick: each moves on to the next adapter, and the
\* step in which a fetch fails only logs it and changes nothing else; a
\* tick with a failure that is past the fetch loop has called every adapter
\* and holds what the others returned; it normalizes every one of these
\* observations, submits each to the raw store and promotes each accepted
\* one the raw store took, as a tick without a failure does.
C15_AdapterFailureIsolated ==
    [][/\ (tick_pc = "fetch" /\ tick.ai <= Len(Adapters)) =>
             /\ tick_pc' = "fetch"
             /\ tick'.ai = tick.ai + 1
       /\ (/\ tick_pc = "fetch"
           /\ Len(tick'.log) > Len(tick.log)
           /\ tick'.log[Len(tick'.log)].event = "failed") =>
             /\ tick_pc' = "fetch"
             /\ tick'.ai = tick.ai + 1
             /\ tick'.all_prices = tick.all_prices
             /\ UNCHANGED <<prices_raw, prices_canonical, audit_log>>
       /\ (HadFailure(tick') /\ tick_pc' \in {"store", "done", "returned"}) =>
             /\ \A a \in 1..Len(Adapters) :
                   a <= Len(tick'.log) /\ tick'.log[a].adapter = Adapters[a]
             /\ tick_pc' = "returned" <=> tick'.all_prices = <<>>
             /\ \A k \in 1..Len(tick'.all_prices) :
                   \E a \in 1..Len(tick'.log) :
                      /\ tick'.log[a].event = "returned"
                      /\ tick'.log[a].adapter = tick'.all_prices[k].source
             /\ tick_pc' # "returned" =>
                   \A k \in 1..Len(tick'.all_prices) :
                      InList(tick'.result.accepted, tick'.all_prices[k])
                        # InList(RejectedPrices(tick'.result), tick'.all_prices[k])
       /\ (HadFailure(tick) /\ StoreStep) =>
             /\ HasRawRow(prices_raw', Handled)
             /\ (/\ InList(tick.result.accepted, Handled)
                 /\ Len(prices_raw') > Len(prices_raw)) =>
                   HasCanonicalRow(prices_canonical', Handled, Len(prices_raw'))
       /\ (HadFailure(tick') /\ tick_pc' = "done") =>
             \A k \in 1..Len(tick'.all_prices) :
                HasRawRow(prices_raw', tick'.all_prices[k])]_vars

C15_Witness ==
    /\ tick_pc = "done"
    /\ Len(tick.log) = 2
    /\ tick.log[1].event = "failed"
    /\ tick.log[2].event = "returned"
    /\ Len(tick.all_prices) = 1
    /\ tick.promoted = 1
    /\ HasCanonicalRow(prices_canonical, tick.all_prices[1], Len(prices_raw))
    /\ Len(audit_log) = started

\* C16: every step that changes prices_canonical is a step of the store loop
\* handling an observation that the tick's normalize accepted, and writes
\* that observation's row; a step handling a rejected observation leaves
\* prices_canonical as it is.
C16_OnlyAcceptedPromoted ==
    [][/\ prices_canonical' # prices_canonical =>
             /\ StoreStep
             /\ InList(tick.result.accepted, Handled)
             /\ ~InList(RejectedPrices(tick.result), Handled)
             /\ \E r \in prices_canonical' :
                   /\ r.metal = Handled.metal /\ r.price_ts = Handled.price_ts
                   /\ r.value = Handled.value /\ r.source = Handled.source
                   /\ \A q \in prices_canonical' \ {r} : q \in prices_canonical
       /\ (StoreStep /\ InList(RejectedPrices(tick.result), Handled)) =>
             prices_canonical' = prices_canonical]_vars

C16_Witness ==
    /\ tick_pc = "done"
    /\ Len(tick.result.rejected) = 1
    /\ Len(tick.result.accepted) = 1
    /\ tick.promoted = 1
    /\ HasRawRow(prices_raw, tick.result.rejected[1].price)
    /\ \A r \in prices_canonical : r.value # tick.result.rejected[1].price.value

\* The audit rows written for one tick
AuditRowsOf(request_id) ==
    {k \in 1..Len(audit_log) : audit_log[k].request_id = request_id}

\* C17: a tick that has run to its end (by the early return or past the
\* audit write) has written exactly one audit entry, and that entry records
\* the tick's fetched, accepted, rejected and promoted counts.
C17_OneAuditEntryPerTick ==
    tick_pc \in {"returned", "done"} =>
        /\ Cardinality(AuditRowsOf(tick.request_id)) = 1
        /\ \A k \in AuditRowsOf(tick.request_id) :
              audit_log[k].payload_hash.sha256_of =
                  [fetched |-> Len(tick.all_prices),
                   accepted |-> Len(tick.result.accepted),
                   rejected |-> Len(tick.result.rejected),
                   promoted |-> tick.promoted]

\* C18: every step of the store loop submits the observation it handles to
\* prices_raw, accepted or rejected alike: a quote prices_raw does not hold
\* yet gets its row, whatever normalize said of it; and when the tick has
\* completed, prices_raw holds a row for every fetched observation.
C18_EveryObservationStoredRaw ==
    [][/\ StoreStep =>
             IF HasRawRow(prices_raw, Handled)
             THEN prices_raw' = prices_raw
             ELSE prices_raw' = Append(prices_raw,
                                       RawRowOf(Handled, Len(prices_raw) + 1))
       /\ tick_pc' = "done" =>
             \A k \in 1..Len(tick'.all_prices) :
                HasRawRow(prices_raw', tick'.all_prices[k])]_vars

C18_Witness ==
    /\ tick_pc = "done"
    /\ Len(tick.result.rejected) = 1
    /\ Len(tick.result.accepted) = 1
    /\ \E k \in 1..Len(prices_raw) :
          prices_raw[k] = RawRowOf(tick.result.rejected[1].price, k)
    /\ \E k \in 1..Len(prices_raw) :
          prices_raw[k] = RawRowOf(tick.result.accepted[1], k)

\* C19: when a tick has completed, every observation that normalize accepted
\* has been promoted: the promoted count equals the accepted count, and
\* prices_canonical holds a row for the (metal, price_ts) of each.
C19_EveryAcceptedPromoted ==
    tick_pc = "done" =>
        /\ tick.promoted = Len(tick.result.accepted)
        /\ \A j \in 1..Len(tick.result.accepted) :
              \E r \in prices_canonical :
                 /\ r.metal = tick.result.accepted[j].metal
                 /\ r.price_ts = tick.result.accepted[j].price_ts

\* Observations i < j of the running tick come from different sources and
\* bear the same metal and timestamp
SameRow(i, j) ==
    /\ i < j
    /\ tick.all_prices[i].source # tick.all_prices[j].source
    /\ tick.all_prices[i].metal = tick.all_prices[j].metal
    /\ tick.all_prices[i].price_ts = tick.all_prices[j].price_ts

\* Observation k of the running tick is no outlier against the tick's
\* historical window
PassesOutlierCheck(k) ==
    LET p == tick.all_prices[k]
        o == is_outlier(p.value, tick.historical[p.metal], OUTLIER_MULTIPLIER)
    IN  o.exc = NoExc /\ o.val = FALSE

\* The canonical row of p's metal and timestamp holds p
RowHolds(canonical, p) ==
    \A r \in canonical :
        (r.metal = p.metal /\ r.price_ts = p.price_ts) =>
            (r.value = DecimalToFloat(p.value) /\ r.source = p.source)

\* C26: when a tick holds two observations from different sources for the
\* same metal and timestamp and both pass the outlier check, both are
\* accepted, each is written to the canonical row of that metal and timestamp
\* by its step of the store loop, and when the tick has written its audit
\* entry that row holds the one that comes later in the batch.
C26_LaterInBatchWins ==
    [][tick_pc = "store" =>
        \A i, j \in 1..Len(tick.all_prices) :
            (SameRow(i, j) /\ PassesOutlierCheck(i) /\ PassesOutlierCheck(j)) =>
                /\ InList(tick.result.accepted, tick.all_prices[i])
                /\ InList(tick.result.accepted, tick.all_prices[j])
                /\ (StoreStep /\ tick.pi \in {i, j}) =>
                      /\ \E r \in prices_canonical' :
                            /\ r.metal = Handled.metal
                            /\ r.price_ts = Handled.price_ts
                      /\ RowHolds(prices_canonical', Handled)
                /\ tick_pc' = "done" =>
                      /\ \E r \in prices_canonical' :
                            /\ r.metal = tick.all_prices[j].metal
                            /\ r.price_ts = tick.all_prices[j].price_ts
                      /\ RowHolds(prices_canonical', tick.all_prices[j])]_vars

\* Every value of the window is the value of a canonical row of its metal
WindowFromStore(historical, canonical) ==
    \A m \in DOMAIN historical :
        \A k \in 1..Len(historical[m]) :
            \E r \in canonical : r.metal = m /\ r.value = historical[m][k]

----------------------------------------------------------------------------
(* Properties of the policy gate *)

\* C20: for every action of the blocked journal-entry set, whatever the
\* approvals table holds, check_action raises PolicyViolation if and only if
\* the actor is "agent"; for every other actor it returns "ALLOWED".
C20_JournalBlockedForAgentOnly ==
    last_check.action \in {"POST /journal_entries", "PATCH /journal_entries",
                     "PUT /journal_entries", "DELETE /journal_entries",
                     "create_journal_entry", "modify_journal_entry"} =>
        /\ last_check.outcome = Raise("PolicyViolation") <=> last_check.actor = "agent"
        /\ last_check.actor # "agent" => last_check.outcome = Ret("ALLOWED")

C20_Witness ==
    /\ checks = 2
    /\ approvals = {}
    /\ last_check.action = "POST /journal_entries"
    /\ last_check.actor = "HUMAN"
    /\ last_check.outcome = Ret("ALLOWED")
    /\ policy_events[1].action = "POST /journal_entries"
    /\ policy_events[1].actor = "agent"
    /\ policy_events[1].result = "DENIED"

\* An approval row that is neither revoked nor expired
ActiveRow(r) == r.revoked = FALSE /\ r.expires_at # "past"

\* C21: for every action of the approval-required source-config set and every
\* actor, check_action returns "ALLOWED" when the approvals table holds an
\* active (not revoked, not expired) row and raises PolicyViolation when it
\* holds none.
C21_SourceConfigNeedsApproval ==
    last_check.action \in {"UPDATE source_configs", "INSERT source_configs",
                           "DELETE source_configs", "mutate_source_config"} =>
        IF \E r \in approvals : ActiveRow(r)
        THEN last_check.outcome = Ret("ALLOWED")
        ELSE last_check.outcome = Raise("PolicyViolation")

C21_Witness ==
    /\ checks = 2
    /\ Cardinality(approvals) = 2
    /\ \A r \in approvals : ~ActiveRow(r)
    /\ last_check.action = "UPDATE source_configs"
    /\ last_check.actor = "HUMAN"
    /\ last_check.outcome = Raise("PolicyViolation")
    /\ policy_events[1].action = "mutate_source_config"
    /\ policy_events[1].actor = "agent"
    /\ policy_events[1].result = "DENIED"

\* The verdict a finished call stands for
VerdictOf(outcome) == IF outcome = Ret("ALLOWED") THEN "ALLOWED" ELSE "DENIED"

----------------------------------------------------------------------------
(* Properties of the egress guard *)

\* The text of s after its last piece in marks
AfterLast(s, marks) ==
    LET at == PositionsOf(s, marks)
    IN  IF at = {} THEN s
        ELSE SubSeq(s, (CHOOSE i \in at : \A j \in at : j <= i) + 1, Len(s))

\* The text of s before its first piece in marks
BeforeFirst(s, marks) ==
    LET at == PositionsOf(s, marks)
    IN  IF at = {} THEN s
        ELSE SubSeq(s, 1, (CHOOSE i \in at : \A j \in at : i <= j) - 1)

\* The host a URL names: in scheme://[userinfo@]host[:port]/path, what
\* stands between the user part and the port; none without "//"
HostOf(url) ==
    IF \E i \in 1..(Len(url) - 1) : url[i] = "/" /\ url[i + 1] = "/"
    THEN LET from == CHOOSE i \in 1..(Len(url) - 1) :
                         /\ url[i] = "/" /\ url[i + 1] = "/"
                         /\ \A j \in 1..(i - 1) : url[j] # "/"
             authority == BeforeFirst(SubSeq(url, from + 2, Len(url)),
                                      {"/", "?", "#"})
         IN  BeforeFirst(AfterLast(authority, {"@"}), {":"})
    ELSE <<>>

\* The host with a leading "www." removed, lower-cased
Normalised(host) ==
    LET bare == IF Len(host) >= 2 /\ host[1] = "www" /\ host[2] = "."
                THEN SubSeq(host, 3, Len(host)) ELSE host
    IN  [i \in 1..Len(bare) |->
            CASE bare[i] = "WWW" -> "www"
              [] bare[i] = "Iscrapapp" -> "iscrapapp"
              [] OTHER -> bare[i]]

\* h is d, or h is a subdomain of d
WithinDomain(h, d) ==
    \/ h = d
    \/ /\ Len(h) > Len(d) + 1
       /\ h[Len(h) - Len(d)] = "."
       /\ SubSeq(h, Len(h) - Len(d) + 1, Len(h)) = d

HostAllowed(url) ==
    \E i \in 1..Len(EGRESS_ALLOWLIST) :
        WithinDomain(Normalised(HostOf(url)), EGRESS_ALLOWLIST[i])

\* C23: egress_get and egress_post send a request only for a URL whose host
\* (port removed, leading "www." removed, lower-cased) is an allowlist entry
\* or a subdomain of one, and for every other URL they raise EgressViolation
\* and send nothing.
C23_RequestsOnlyToAllowlist ==
    /\ \A i \in 1..Len(requests) : HostAllowed(requests[i].url)
    /\ (/\ egress_last.fn \in {"egress_get", "egress_post"}
        /\ ~HostAllowed(egress_last.url))
       => egress_last.outcome.exc = "EgressViolation"

MetalsApi == <<"metals-api", ".", "com">>

Lbma == <<"api", ".", "lbma", ".", "org", ".", "uk">>

\* C24: URLs on metals-api.com, on a subdomain of it and on api.lbma.org.uk
\* pass check_egress, and both domains are members of the allowlist.
C24_PriceSourcesAllowed ==
    /\ (/\ egress_last.fn = "check_egress"
        /\ \/ WithinDomain(HostOf(egress_last.url), MetalsApi)
           \/ HostOf(egress_last.url) = Lbma)
       => egress_last.outcome.exc = NoExc
    /\ \E i \in 1..Len(EGRESS_ALLOWLIST) : EGRESS_ALLOWLIST[i] = MetalsApi
    /\ \E i \in 1..Len(EGRESS_ALLOWLIST) : EGRESS_ALLOWLIST[i] = Lbma

\* C30: every allowlist entry d is itself reachable: a URL https://d/path
\* passes the check of egress_get, of egress_post and of check_egress.
C30_EveryEntryReachable ==
    (\E i \in 1..Len(EGRESS_ALLOWLIST) :
        egress_last.url =
            <<"https", ":", "/", "/">> \o EGRESS_ALLOWLIST[i] \o <<"/", "path">>)
    => egress_last.outcome.exc # "EgressViolation"

----------------------------------------------------------------------------
(* Properties of the ledger service *)

\* The total of one side of the journal_lines rows of an entry
RECURSIVE PersistedTotal(_, _, _)
PersistedTotal(rows, entry_id, side) ==
    IF rows = <<>> THEN 0
    ELSE (IF rows[1].entry_id # entry_id THEN 0
          ELSE IF side = "debit" THEN rows[1].debit ELSE rows[1].credit)
         + PersistedTotal(Tail(rows), entry_id, side)

RECURSIVE RequestTotal(_, _)
RequestTotal(lines, side) ==
    IF lines = <<>> THEN 0
    ELSE (IF side = "debit" THEN lines[1].debit ELSE lines[1].credit)
         + RequestTotal(Tail(lines), side)

NothingPersisted ==
    /\ journal_entries' = journal_entries
    /\ journal_lines' = journal_lines

\* C25: after any sequence of POST /journal_entries requests every persisted
\* entry was created with role HUMAN and has total debits equal to total
\* credits; a request with another or no role gets 403, persists nothing and
\* writes a DENIED audit entry; an unbalanced entry persists nothing.
C25_OnlyBalancedHumanEntries ==
    [][posts' # posts =>
        /\ \A i \in 1..Len(journal_entries') :
             /\ journal_entries'[i].created_by = "HUMAN"
             /\ PersistedTotal(journal_lines', journal_entries'[i].id, "debit")
                = PersistedTotal(journal_lines', journal_entries'[i].id, "credit")
        /\ ledger_last'.role # <<"HUMAN">> =>
             /\ ledger_last'.status = 403
             /\ NothingPersisted
             /\ Len(ledger_audit') = Len(ledger_audit) + 1
             /\ ledger_audit'[Len(ledger_audit')].payload_hash.sha256_of.status
                = "DENIED"
        /\ RequestTotal(ledger_last'.lines, "debit")
             # RequestTotal(ledger_last'.lines, "credit")
           => NothingPersisted]_vars

----------------------------------------------------------------------------
(* Properties of the orchestrator tick *)

\* C28: in an orchestrator tick the forecast run is triggered and the report
\* stored only after the tick's check_action("POST /forecast/run", "agent")
\* has returned "ALLOWED", the forecast run first; a tick whose check_action
\* raised PolicyViolation triggers no forecast run and stores no report.
C28_ForecastOnlyWhenAllowed ==
    [][/\ forecast_runs' # forecast_runs =>
             /\ o_check = [exc |-> "none", val |-> "ALLOWED"]
             /\ forecast_runs' = Append(forecast_runs, o_ticks)
             /\ \E k \in 1..Len(policy_audit) :
                   /\ policy_audit[k].request_id = o_ticks
                   /\ policy_audit[k].actor = "agent"
                   /\ policy_audit[k].action = "POST /forecast/run"
       /\ reports' # reports =>
             /\ o_check = [exc |-> "none", val |-> "ALLOWED"]
             /\ Len(forecast_runs) > 0
             /\ forecast_runs[Len(forecast_runs)] = o_ticks
             /\ reports' = Append(reports, [tick |-> o_ticks,
                                            forecast_result |-> o_forecast])
       /\ o_check.exc = "PolicyViolation" =>
             (o_ticks' = o_ticks =>
                 forecast_runs' = forecast_runs /\ reports' = reports)]_vars

C28_Witness ==
    /\ o_ticks = 2
    /\ o_pc = "done"
    /\ o_check = [exc |-> "none", val |-> "ALLOWED"]
    /\ forecast_runs = <<2>>
    /\ Len(reports) = 1
    /\ reports[1].tick = 2
    /\ Len(policy_audit) = 1
    /\ policy_events[1].result = "ALLOWED"

=============================================================================
